---- MODULE Spec2Model ----
(***************************************************************************)
(* BeartypeNodeTransformer (beartype/claw/_ast/clawastmain.py): the AST    *)
(* transformer that decorates classes and typed callables of a module and  *)
(* inserts the import of the beartype attributes at the top of the module. *)
(*                                                                         *)
(* The recursive traversal is unfolded into an explicit call stack         *)
(* ("frames"): one action per visitor method entry and one per return of   *)
(* generic_visit().                                                        *)
(*                                                                         *)
(* The source code getters of beartype/_util/func/utilfunccode.py, as      *)
(* defined under Python >= 3.9: one action per getter, and one for the     *)
(* block of get_func_code_or_none() that parses the file of a lambda.      *)
(***************************************************************************)
EXTENDS Integers, Sequences, FiniteSets, TLC

\* Largest number of nodes (statements) of an input module tree.
MaxNodes == 4

\* The same, for the specifications that add to the single run of Spec: a
\* second run, a second configuration, a failing visit, fairness.
MaxSmall == 3

\* Largest number of nodes below the root of a tree parsed from the file of
\* a lambda, and largest line number of such a node.
MaxAstNodes == 3
MaxLine == 2

\* Largest number of nodes of the trees of two transformers of which the
\* visits are interleaved: of the one, and of the other.
MaxPair == 2
MaxOther == 1

VARIABLES
    nodes,                  \* node id -> node record (the AST nodes, by id)
    body,                   \* node id -> list of child node ids (0 = module)
    decorator_list,         \* node id -> list of decorations added to it
    conf_beartype,          \* self._conf_beartype
    scope_name_beartype,    \* self._scope_name_beartype, as a list of names
    scope_stack_beartype,   \* self._scope_stack_beartype
    frames,                 \* active generic_visit() calls, outermost first
    node_sibling,           \* <<node whose metadata the import node copied>>
    enters,                 \* number of scope pushes so far
    exits,                  \* number of scope pops so far
    visited,                \* the nodes visited so far, in order of visit
    returned,               \* <<value returned by visit(module)>>, once made
    raised_at,              \* <<node whose visit raised>>, once one did
    first_run,              \* <<tree as the first run left it>>, in a rerun
    pc,                     \* "start", "walk", "done" or "raised"
    func,                   \* the callable passed to a source code getter
    called,                 \* the getter called
    lambda_file_code,       \* <<value of lambda_file_code>>, once assigned
    parsed,                 \* has ast_parse() been called?
    ast_tree,               \* the tree the unparser has visited
    lambdas_code,           \* lambda_node_unparser.lambdas_code
    warnings,               \* the warnings issued, in order
    excs,                   \* the calls that raised, in order
    result,                 \* <<value returned by the getter>>, once made
    lpc,                    \* position in the getter called
    other                   \* <<the second transformer, its tree and its
                            \*   visit>> while that visit is suspended

\* The state of one transformer and of the tree it is given.
tvars == <<nodes, body, decorator_list, conf_beartype, scope_name_beartype,
           scope_stack_beartype, frames, node_sibling, enters, exits,
           visited, returned, raised_at, first_run, pc>>

\* The state of one call of a source code getter.
lvars == <<func, called, lambda_file_code, parsed, ast_tree, lambdas_code,
           warnings, excs, result, lpc>>

vars == <<tvars, lvars, other>>

\* No source code getter is called.
NoGetterCall ==
    /\ func = [is_lambda |-> FALSE, is_file |-> FALSE, co_firstlineno |-> 1]
    /\ called = ""
    /\ lambda_file_code = <<>>
    /\ parsed = FALSE
    /\ ast_tree = <<>>
    /\ lambdas_code = <<>>
    /\ warnings = <<>>
    /\ excs = <<>>
    /\ result = <<>>
    /\ lpc = "idle"

-----------------------------------------------------------------------------
(* The input trees.                                                        *)

\* Id of the module node (the root).
ModuleNode == 0

\* Name of the module being transformed (module_name_beartype).
module_name_beartype == "muh_module"

\* The beartype configurations a transformer may be constructed with.
Confs == {"conf"}

\* The same, widened by a second configuration.
OtherConfs == Confs \union {"conf_other"}

Node(kind, value, module, returns, args, parent) ==
    [kind |-> kind, value |-> value, module |-> module,
     returns |-> returns, args |-> args, parent |-> parent]

\* Simple statements: expression statements of a string constant (a docstring
\* when first in the module), of another constant or of a call, "from
\* __future__ import", "from other import" and "import other".
SimpleStatements ==
    { Node("Expr", "ConstantStr", "", FALSE, FALSE, 0),
      Node("Expr", "ConstantNum", "", FALSE, FALSE, 0),
      Node("Expr", "Call", "", FALSE, FALSE, 0),
      Node("ImportFrom", "", "__future__", FALSE, FALSE, 0),
      Node("ImportFrom", "", "other", FALSE, FALSE, 0),
      Node("Import", "", "other", FALSE, FALSE, 0) }

\* Compound statements: classes, callables (without annotations, with a
\* return annotation only, with an annotated parameter only) and "if" blocks,
\* the latter standing for every node that declares no scope: childless, it
\* is a simple statement nested in a body.
CompoundStatements ==
    { Node("ClassDef", "", "", FALSE, FALSE, 0),
      Node("FunctionDef", "", "", FALSE, FALSE, 0),
      Node("FunctionDef", "", "", TRUE, FALSE, 0),
      Node("FunctionDef", "", "", FALSE, TRUE, 0),
      Node("If", "", "", FALSE, FALSE, 0) }

RECURSIVE OnPath(_, _, _)
\* Is a the node x or one of its ancestors (0, the root, always is)?
OnPath(p, a, x) ==
    \/ a = 0
    \/ a = x
    \/ x # 0 /\ OnPath(p, a, p[x])

\* Parent maps of the ordered forests of d nodes numbered in pre-order.
PreorderParents(d) ==
    { p \in [1..d -> 0..(d - 1)] :
        /\ \A i \in 1..d : p[i] < i
        /\ \A i \in 2..d : OnPath(p, p[i], i - 1) }

\* Children of node m, in source order.
Children(nds, m) ==
    SelectSeq([i \in 1..Len(nds) |-> i], LAMBDA i : nds[i].parent = m)

-----------------------------------------------------------------------------
(* Helpers of the transformer.                                             *)

Kind(n) == IF n = ModuleNode THEN "Module" ELSE nodes[n].kind

TYPES_NODE_LEXICAL_SCOPE == {"ClassDef", "FunctionDef"}

\* self._is_scope_class_beartype
is_scope_class_beartype(stack) ==
    /\ stack # <<>>
    /\ stack[Len(stack)] = "ClassDef"

\* is_node_callable_typed(node)
is_node_callable_typed(node) == node.returns \/ node.args

\* self._decorate_node_beartype(node, conf): one more decoration on the node.
decorate_node_beartype(decorators, conf) == <<conf>> \o decorators

\* make_node_importfrom(module_name, source_attr_name, node_sibling)
make_node_importfrom(module_name) ==
    Node("ImportFrom", "", module_name, FALSE, FALSE, ModuleNode)

\* The scan stopping at future imports.
IsDocstringOrFuture_NoFuture(node) ==
    node.kind = "Expr" /\ node.value \in {"ConstantStr", "ConstantNum"}

\* The scan passing over string constants only, and future imports.
IsDocstringOrFuture_StringOnly(node) ==
    \/ node.kind = "Expr" /\ node.value = "ConstantStr"
    \/ node.kind = "ImportFrom" /\ node.module = "__future__"

\* The test of the scan of visit_Module(): is this child node a module
\* docstring or a future import, to be skipped?
IsDocstringOrFuture(node) ==
    \/ node.kind = "Expr" /\ node.value \in {"ConstantStr", "ConstantNum"}
    \/ node.kind = "ImportFrom" /\ node.module = "__future__"

RECURSIVE ScanFrom(_, _, _)
\* The loop of visit_Module() from the i-th child on (i counts from 1).
ScanFrom(nds, stmts, i) ==
    IF i > Len(stmts) THEN i - 1
    ELSE IF ~IsDocstringOrFuture(nds[stmts[i]]) THEN i - 1
    ELSE ScanFrom(nds, stmts, i + 1)

\* node_index_import_beartype_attrs after the loop of visit_Module().
node_index_import_beartype_attrs(nds, stmts) == ScanFrom(nds, stmts, 1)

\* node_prev as the last child the loop skipped (the module if none).
node_prev_LastSkipped(nds, stmts) ==
    IF ScanFrom(nds, stmts, 1) = 0 THEN ModuleNode
    ELSE stmts[ScanFrom(nds, stmts, 1)]

\* node_prev after the loop of visit_Module(): the module when it has no
\* child, else the child the loop stopped at, else the last child.
node_prev(nds, stmts) ==
    IF stmts = <<>> THEN ModuleNode
    ELSE IF node_index_import_beartype_attrs(nds, stmts) < Len(stmts)
         THEN stmts[node_index_import_beartype_attrs(nds, stmts) + 1]
         ELSE stmts[Len(stmts)]

\* visit_Module() inserting the import node into every module.
IsImportInserted_Always(index, node_index_last) == TRUE

\* Does visit_Module() insert the import node?
IsImportInserted(index, node_index_last) == index # node_index_last

\* node.body[index:0] = (node_import_all,)
InsertAt(stmts, index, n) ==
    SubSeq(stmts, 1, index) \o <<n>> \o SubSeq(stmts, index + 1, Len(stmts))

\* visit_ClassDef() sparing the classes nested directly in a class.
IsClassDecorated_NotInClass(stack) == ~is_scope_class_beartype(stack)

\* visit_ClassDef() decorating the classes at module level only.
IsClassDecorated_ModuleLevelOnly(stack) == stack = <<>>

\* Does visit_ClassDef() decorate the class?
IsClassDecorated(stack) == TRUE

\* visit_FunctionDef() testing the scope stack with the frame of the
\* callable itself already on it.
IsFunctionDecorated_OwnFrame(stack, node) ==
    /\ ~is_scope_class_beartype(Append(stack, "FunctionDef"))
    /\ is_node_callable_typed(node)

\* visit_FunctionDef() sparing the callables with a class anywhere on the
\* scope stack.
IsFunctionDecorated_NoClassAbove(stack, node) ==
    /\ \A i \in 1..Len(stack) : stack[i] # "ClassDef"
    /\ is_node_callable_typed(node)

\* visit_FunctionDef() without the test for an enclosing class.
IsFunctionDecorated_NoClassTest(stack, node) == is_node_callable_typed(node)

\* visit_FunctionDef() without the test for type hints.
IsFunctionDecorated_NoTypedTest(stack, node) ==
    ~is_scope_class_beartype(stack)

\* Does visit_FunctionDef() decorate the callable?
IsFunctionDecorated(stack, node) ==
    /\ ~is_scope_class_beartype(stack)
    /\ is_node_callable_typed(node)

\* visit_ClassDef() decorating the class twice.
ClassDecorators_Twice(decorators, conf) ==
    decorate_node_beartype(decorate_node_beartype(decorators, conf), conf)

\* The decorations of a class after visit_ClassDef() has decorated it.
ClassDecorators(decorators, conf) == decorate_node_beartype(decorators, conf)

\* visit_FunctionDef() decorating under the first configuration there is
\* instead of the transformer's own.
FunctionDecorators_DefaultConf(decorators, conf) ==
    decorate_node_beartype(decorators, "conf")

\* The decorations of a callable after visit_FunctionDef() has decorated it.
FunctionDecorators(decorators, conf) == decorate_node_beartype(decorators, conf)

\* generic_visit() opening a scope for classes only.
IsLexicalScope_ClassOnly(node_type) == node_type = "ClassDef"

\* generic_visit() opening a scope for a node of any type.
IsLexicalScope_Any(node_type) == TRUE

\* Does generic_visit() open a lexical scope for a parent node of this type?
IsLexicalScope(node_type) == node_type \in TYPES_NODE_LEXICAL_SCOPE

\* A push at the bottom of the stack instead of its top.
ScopePush_Front(stack, node_type) == <<node_type>> \o stack

\* self._scope_stack_beartype.append(node_type)
ScopePush(stack, node_type) == Append(stack, node_type)

\* generic_visit() forgetting to pop.
ScopePop_Forgotten(stack) == stack

\* self._scope_stack_beartype.pop()
ScopePop(stack) == SubSeq(stack, 1, Len(stack) - 1)

\* The scope name made of the module name and the name of the node alone.
ScopeNameEnter_Unqualified(name, node) == <<name[1], node>>

\* self._scope_name_beartype += f'.{node.name}'
ScopeNameEnter(name, node) == Append(name, node)

-----------------------------------------------------------------------------
(* The state after construction, and the tree handed to visit().            *)

\* A transformer constructed with one of the configurations confs, and a
\* module tree of at most max nodes.
InitRun(max, confs) ==
    \E n \in 0..max, conf \in confs :
    \E l \in 0..n :
    \E simple \in [1..l -> SimpleStatements],
       compound \in [(l + 1)..n -> CompoundStatements],
       p \in PreorderParents(n - l) :
        /\ nodes = [i \in 1..n |->
                      IF i <= l THEN simple[i]
                      ELSE [compound[i] EXCEPT
                              !.parent = IF p[i - l] = 0 THEN 0
                                         ELSE p[i - l] + l]]
        /\ body = [m \in 0..(n + 1) |-> Children(nodes, m)]
        /\ decorator_list = [m \in 1..(n + 1) |-> <<>>]
        /\ conf_beartype = conf
        /\ scope_name_beartype = <<module_name_beartype>>
        /\ scope_stack_beartype = <<>>
        /\ frames = <<>>
        /\ node_sibling = <<>>
        /\ enters = 0
        /\ exits = 0
        /\ visited = <<>>
        /\ returned = <<>>
        /\ raised_at = <<>>
        /\ first_run = <<>>
        /\ pc = "start"
        /\ NoGetterCall

\* The same, with no second transformer.
InitOf(max, confs) == InitRun(max, confs) /\ other = <<>>

Init == InitOf(MaxNodes, Confs)

-----------------------------------------------------------------------------
(* The visitor methods.                                                    *)

\* The frame of a generic_visit(node) call: the next child to visit, the
\* values the visits of its children returned so far, and the local variable
\* scope_name_old.
Frame(n, old) ==
    [node |-> n, next |-> 1, new_values |-> <<>>, scope_name_old |-> old]

Top == frames[Len(frames)]

\* The child the innermost generic_visit() visits next.
HasNextChild == pc = "walk" /\ Top.next <= Len(body[Top.node])
NextChild == body[Top.node][Top.next]

\* The caller's loop moves on to its next child; the callee's frame opens.
Call(n, old) ==
    Append([frames EXCEPT ![Len(frames)].next = @ + 1], Frame(n, old))

\* generic_visit() returning None instead of the node.
GenericVisitReturn_None(n) == <<>>

\* "return node" of generic_visit(): <<node>>, where <<>> stands for None.
GenericVisitReturn(n) == <<n>>

\* A visitor method that calls generic_visit() without returning its value.
VisitResult_NotReturned(r) == <<>>

\* "return self.generic_visit(node)" of the three visitor methods.
VisitResult(r) == r

\* The value visit(node) returns.
Result(n) ==
    IF Kind(n) \in {"Module", "ClassDef", "FunctionDef"}
    THEN VisitResult(GenericVisitReturn(n))
    ELSE GenericVisitReturn(n)

\* generic_visit(node) up to its call of super().generic_visit(node): a node
\* that declares a lexical scope opens it, any other node changes nothing.
GenericVisitEnter(n) ==
    /\ frames' = Call(n, scope_name_beartype)
    /\ visited' = Append(visited, n)
    /\ IF IsLexicalScope(Kind(n))
       THEN /\ scope_name_beartype' = ScopeNameEnter(scope_name_beartype, n)
            /\ scope_stack_beartype' = ScopePush(scope_stack_beartype, Kind(n))
            /\ enters' = enters + 1
       ELSE UNCHANGED <<scope_name_beartype, scope_stack_beartype, enters>>

visit_Module ==
    /\ pc = "start"
    /\ LET stmts == body[ModuleNode]
           index == node_index_import_beartype_attrs(nodes, stmts)
           node_index_last == Len(stmts)
           node_import_all == Len(nodes) + 1
       IN  IF IsImportInserted(index, node_index_last)
           THEN /\ nodes' = Append(nodes, make_node_importfrom(
                                "beartype.claw._ast._clawaststar"))
                /\ node_sibling' = <<node_prev(nodes, stmts)>>
                /\ body' = (node_import_all :> <<>>) @@
                           [body EXCEPT ![ModuleNode] =
                               InsertAt(stmts, index, node_import_all)]
           ELSE UNCHANGED <<nodes, node_sibling, body>>
    /\ frames' = <<Frame(ModuleNode, scope_name_beartype)>>
    /\ visited' = Append(visited, ModuleNode)
    /\ pc' = "walk"
    /\ UNCHANGED <<decorator_list, conf_beartype, scope_name_beartype,
                   scope_stack_beartype, enters, exits, returned, raised_at,
                   first_run>>
    /\ UNCHANGED <<lvars, other>>

visit_ClassDef ==
    /\ HasNextChild
    /\ Kind(NextChild) = "ClassDef"
    /\ decorator_list' =
         IF IsClassDecorated(scope_stack_beartype)
         THEN [decorator_list EXCEPT ![NextChild] =
                 ClassDecorators(@, conf_beartype)]
         ELSE decorator_list
    /\ GenericVisitEnter(NextChild)
    /\ UNCHANGED <<nodes, body, conf_beartype, node_sibling, exits, returned,
                   raised_at, first_run, pc>>
    /\ UNCHANGED <<lvars, other>>

visit_FunctionDef ==
    /\ HasNextChild
    /\ Kind(NextChild) = "FunctionDef"
    /\ decorator_list' =
         IF IsFunctionDecorated(scope_stack_beartype, nodes[NextChild])
         THEN [decorator_list EXCEPT ![NextChild] =
                 FunctionDecorators(@, conf_beartype)]
         ELSE decorator_list
    /\ GenericVisitEnter(NextChild)
    /\ UNCHANGED <<nodes, body, conf_beartype, node_sibling, exits, returned,
                   raised_at, first_run, pc>>
    /\ UNCHANGED <<lvars, other>>

\* visit() of a node of any other type, which has no visitor method of its
\* own: generic_visit(node).
generic_visit ==
    /\ HasNextChild
    /\ Kind(NextChild) \notin {"ClassDef", "FunctionDef"}
    /\ GenericVisitEnter(NextChild)
    /\ UNCHANGED <<nodes, body, decorator_list, conf_beartype, node_sibling,
                   exits, returned, raised_at, first_run, pc>>
    /\ UNCHANGED <<lvars, other>>

\* The return of generic_visit(): super().generic_visit(node) has visited
\* every child and stored the values their visits returned as the children
\* of the node; the scope opened for the node, if any, is closed; the
\* caller's loop receives the value returned.
generic_visit_return ==
    /\ pc = "walk"
    /\ ~HasNextChild
    /\ IF IsLexicalScope(Kind(Top.node))
       THEN /\ scope_name_beartype' = Top.scope_name_old
            /\ scope_stack_beartype' = ScopePop(scope_stack_beartype)
            /\ exits' = exits + 1
       ELSE UNCHANGED <<scope_name_beartype, scope_stack_beartype, exits>>
    /\ body' = [body EXCEPT ![Top.node] = Top.new_values]
    /\ IF Len(frames) = 1
       THEN /\ frames' = <<>>
            /\ returned' = <<Result(Top.node)>>
            /\ pc' = "done"
       ELSE /\ frames' = [SubSeq(frames, 1, Len(frames) - 1)
                            EXCEPT ![Len(frames) - 1].new_values =
                                        @ \o Result(Top.node)]
            /\ UNCHANGED <<returned, pc>>
    /\ UNCHANGED <<nodes, decorator_list, conf_beartype, node_sibling,
                   enters, visited, raised_at, first_run>>
    /\ UNCHANGED <<lvars, other>>

Next ==
    \/ visit_Module
    \/ visit_ClassDef
    \/ visit_FunctionDef
    \/ generic_visit
    \/ generic_visit_return

Spec == Init /\ [][Next]_vars

\* The single run under weak fairness: a visit that can proceed does.
SpecFair == InitOf(MaxSmall, Confs) /\ [][Next]_vars /\ WF_vars(Next)

\* The single run of a transformer constructed with one of two
\* configurations.
SpecConf == InitOf(MaxSmall, OtherConfs) /\ [][Next]_vars

\* A second run: a transformer constructed like the first visits the tree
\* that the first run returned.
visit_again ==
    /\ pc = "done"
    /\ first_run = <<>>
    /\ returned = << <<ModuleNode>> >>
    /\ first_run' = <<[body |-> body, decorator_list |-> decorator_list]>>
    /\ scope_name_beartype' = <<module_name_beartype>>
    /\ scope_stack_beartype' = <<>>
    /\ frames' = <<>>
    /\ node_sibling' = <<>>
    /\ enters' = 0
    /\ exits' = 0
    /\ visited' = <<>>
    /\ returned' = <<>>
    /\ pc' = "start"
    /\ UNCHANGED <<nodes, body, decorator_list, conf_beartype, raised_at>>
    /\ UNCHANGED <<lvars, other>>

NextTwice ==
    \/ Next
    \/ visit_again

SpecTwice == InitOf(MaxSmall, Confs) /\ [][NextTwice]_vars

\* The visit of a child raises before it opens a scope of its own (in the
\* decoration helper, or as the interpreter's recursion limit is reached).
\* generic_visit() has no exception handler and no "finally" block: the
\* exception leaves every open generic_visit() call between its call of
\* super().generic_visit(node) and the two statements that close the scope,
\* which are not run.
visit_raises ==
    /\ HasNextChild
    /\ raised_at' = <<NextChild>>
    /\ frames' = <<>>
    /\ pc' = "raised"
    /\ UNCHANGED <<nodes, body, decorator_list, conf_beartype,
                   scope_name_beartype, scope_stack_beartype, node_sibling,
                   enters, exits, visited, returned, first_run>>
    /\ UNCHANGED <<lvars, other>>

NextFault ==
    \/ Next
    \/ visit_raises

\* The single run in which the visit of a node may raise.
SpecFault == InitOf(MaxSmall, Confs) /\ [][NextFault]_vars

\* The two statements of the trees of the second transformer: a class, and
\* a callable with a return annotation.
PairStatements ==
    { Node("ClassDef", "", "", FALSE, FALSE, 0),
      Node("FunctionDef", "", "", TRUE, FALSE, 0) }

\* A second transformer as constructed, with the tree it is to visit.
Instance(nds, conf) ==
    [nodes |-> nds,
     body |-> [m \in 0..(Len(nds) + 1) |-> Children(nds, m)],
     decorator_list |-> [m \in 1..(Len(nds) + 1) |-> <<>>],
     conf_beartype |-> conf,
     scope_name_beartype |-> <<module_name_beartype>>,
     scope_stack_beartype |-> <<>>,
     frames |-> <<>>,
     node_sibling |-> <<>>,
     enters |-> 0,
     exits |-> 0,
     visited |-> <<>>,
     returned |-> <<>>,
     raised_at |-> <<>>,
     first_run |-> <<>>,
     pc |-> "start"]

\* The scope stack as an attribute of the class, one list for all instances.
IsPerInstance_SharedStack(slot) == slot # "_scope_stack_beartype"

\* Is this attribute one of the instance? All are: each is a slot of the
\* class, assigned in __init__, the scope stack as a new list.
IsPerInstance(slot) ==
    slot \in { "_conf_beartype", "_scope_name_beartype",
               "_scope_stack_beartype" }

\* Two transformers, each with a tree of its own; the visit of the first is
\* about to start, the second waits.
InitPair ==
    /\ InitRun(MaxPair, Confs)
    /\ \E n \in 0..MaxOther :
       \E statements \in [1..n -> PairStatements],
          parents \in PreorderParents(n) :
          other = <<Instance([i \in 1..n |-> [statements[i] EXCEPT
                                                !.parent = parents[i]]],
                             "conf_other")>>

\* The interpreter goes from the visit of the one transformer to the visit
\* of the other, which is not complete: the tree, the call stack and the
\* attributes of each instance stay with it.
switch ==
    /\ other # <<>>
    /\ other[1].pc # "done"
    /\ other' = <<[nodes |-> nodes,
                   body |-> body,
                   decorator_list |-> decorator_list,
                   conf_beartype |-> conf_beartype,
                   scope_name_beartype |-> scope_name_beartype,
                   scope_stack_beartype |-> scope_stack_beartype,
                   frames |-> frames,
                   node_sibling |-> node_sibling,
                   enters |-> enters,
                   exits |-> exits,
                   visited |-> visited,
                   returned |-> returned,
                   raised_at |-> raised_at,
                   first_run |-> first_run,
                   pc |-> pc]>>
    /\ nodes' = other[1].nodes
    /\ body' = other[1].body
    /\ decorator_list' = other[1].decorator_list
    /\ conf_beartype' = IF IsPerInstance("_conf_beartype")
                        THEN other[1].conf_beartype
                        ELSE conf_beartype
    /\ scope_name_beartype' = IF IsPerInstance("_scope_name_beartype")
                              THEN other[1].scope_name_beartype
                              ELSE scope_name_beartype
    /\ scope_stack_beartype' = IF IsPerInstance("_scope_stack_beartype")
                               THEN other[1].scope_stack_beartype
                               ELSE scope_stack_beartype
    /\ frames' = other[1].frames
    /\ node_sibling' = other[1].node_sibling
    /\ enters' = other[1].enters
    /\ exits' = other[1].exits
    /\ visited' = other[1].visited
    /\ returned' = other[1].returned
    /\ raised_at' = other[1].raised_at
    /\ first_run' = other[1].first_run
    /\ pc' = other[1].pc
    /\ UNCHANGED lvars

NextPair ==
    \/ Next
    \/ switch

\* The visits of two transformers, interleaved in any order.
SpecPair == InitPair /\ [][NextPair]_vars

-----------------------------------------------------------------------------
(* The source code getters (utilfunccode.py).                              *)

\* Maximum size of a file parsed for the declaration of a lambda.
_LAMBDA_CODE_FILESIZE_MAX == 1000000

\* The three getters.
PublicFunctions ==
    { "get_func_code_or_none", "get_func_code_lines_or_none",
      "get_func_file_code_lines_or_none" }

\* The callables: lambda or not, declared in a file or in memory, and the
\* line on which the declaration starts (func_codeobj.co_firstlineno).
Funcs ==
    [is_lambda : BOOLEAN, is_file : BOOLEAN, co_firstlineno : 1..MaxLine]

is_func_lambda(f) == f.is_lambda
is_func_file(f) == f.is_file

\* The values a getter returns: None, the text of a whole file (of which
\* the length matters), the lines that declare a callable, and the text an
\* unparsed lambda node gives.
None == [kind |-> "None", size |-> 0, text |-> ""]
FileCode(size) == [kind |-> "file", size |-> size, text |-> ""]
FuncLines == [kind |-> "lines", size |-> 0, text |-> ""]
LambdaCode(text) == [kind |-> "lambda", size |-> 0, text |-> text]

\* Truth value of an Optional[str]: None and the empty string are false.
IsTruthy(value) == value.kind # "None" /\ ~(value.kind = "file" /\ value.size = 0)

\* Lengths of the files: empty, and around the maximum.
FileSizes ==
    { 0, _LAMBDA_CODE_FILESIZE_MAX - 1, _LAMBDA_CODE_FILESIZE_MAX,
      _LAMBDA_CODE_FILESIZE_MAX + 1 }

\* What inspect.findsource() does: it raises, or returns the lines of a file.
FindsourceOutcomes ==
    { [raises |-> TRUE, size |-> 0] }
       \union { [raises |-> FALSE, size |-> n] : n \in FileSizes }

\* getsource() called outside the try block.
IsInTry_GetsourceOutside(site) == site # "getsource"

\* A try block that leaves ast_unparse() out.
IsInTry_UnparseOutside(site) == site # "ast_unparse"

\* Is this call made in a try block with an "except Exception" clause?
\* findsource() and getsource() in the two line getters, every other call
\* in the one try block of get_func_code_or_none().
IsInTry(site) ==
    site \in { "findsource", "getsource", "get_func_codeobj", "ast_parse",
               "visit", "ast_unparse" }

\* The call at this site raises an exception: the except clause warns and
\* the getter goes on at position next, or the exception leaves the getter.
Raise(site, next) ==
    /\ excs' = Append(excs, site)
    /\ IF IsInTry(site)
       THEN /\ warnings' = Append(warnings, "not parsable")
            /\ lpc' = next
       ELSE /\ warnings' = warnings
            /\ lpc' = "escaped"

\* The lambda nodes as written, and the node of any other type ("Other").
LambdaSources == { "lambda:0", "lambda: 1" }

AstNode(kind, lineno, src, parent) ==
    [kind |-> kind, lineno |-> lineno, src |-> src, parent |-> parent]

AstNodes ==
    { AstNode("Lambda", l, src, 0) : l \in 1..MaxLine, src \in LambdaSources }
       \union { AstNode("Other", l, "", 0) : l \in 1..MaxLine }

\* A tree ast_parse() returns: the nodes below the root, numbered in
\* pre-order, each with its parent (0 for the root).
AstTree(kinds, parents) ==
    [i \in DOMAIN kinds |-> [kinds[i] EXCEPT !.parent = parents[i]]]

\* ast.unparse(node): the node written out in the one way unparse() writes.
ast_unparse(node) ==
    IF node.src = "lambda:0" THEN "lambda: 0" ELSE node.src

RECURSIVE NodeVisitor_visit(_, _, _)
RECURSIVE NodeVisitor_generic_visit(_, _, _)

\* _LambdaNodeUnparser.visit_Lambda() without the test of the line number.
visit_Lambda_AnyLine(tree, n, lambda_lineno) ==
    <<ast_unparse(tree[n])>>
       \o NodeVisitor_generic_visit(tree, Children(tree, n), lambda_lineno)

\* _LambdaNodeUnparser.visit_Lambda(): what it appends to lambdas_code.
visit_Lambda(tree, n, lambda_lineno) ==
    IF tree[n].lineno = lambda_lineno
    THEN <<ast_unparse(tree[n])>>
            \o NodeVisitor_generic_visit(tree, Children(tree, n), lambda_lineno)
    ELSE IF tree[n].lineno < lambda_lineno
    THEN NodeVisitor_generic_visit(tree, Children(tree, n), lambda_lineno)
    ELSE <<>>

\* NodeVisitor.visit(): visit_Lambda() for a lambda node, generic_visit()
\* for any other.
NodeVisitor_visit(tree, n, lambda_lineno) ==
    IF tree[n].kind = "Lambda"
    THEN visit_Lambda(tree, n, lambda_lineno)
    ELSE NodeVisitor_generic_visit(tree, Children(tree, n), lambda_lineno)

\* NodeVisitor.generic_visit(): the children visited in order.
NodeVisitor_generic_visit(tree, children, lambda_lineno) ==
    IF children = <<>> THEN <<>>
    ELSE NodeVisitor_visit(tree, children[1], lambda_lineno)
            \o NodeVisitor_generic_visit(tree, Tail(children), lambda_lineno)

\* lambdas_code after lambda_node_unparser.visit(ast_tree).
VisitTree(tree, lambda_lineno) ==
    NodeVisitor_generic_visit(tree, Children(tree, 0), lambda_lineno)

\* The last of the lambdas found instead of the first.
SelectedLambda_Last(codes) == codes[Len(codes)]

\* "return lambdas_code[0]"
SelectedLambda(codes) == codes[1]

\* A file of the maximum size passed to the parser.
IsFileTooLarge_Above(size) == size > _LAMBDA_CODE_FILESIZE_MAX

\* "if len(lambda_file_code) >= _LAMBDA_CODE_FILESIZE_MAX"
IsFileTooLarge(size) == size >= _LAMBDA_CODE_FILESIZE_MAX

\* A call of one of the getters for one callable, and no transformer.
InitLocator ==
    /\ func \in Funcs
    /\ called \in PublicFunctions
    /\ lambda_file_code = <<>>
    /\ parsed = FALSE
    /\ ast_tree = <<>>
    /\ lambdas_code = <<>>
    /\ warnings = <<>>
    /\ excs = <<>>
    /\ result = <<>>
    /\ lpc = "call"
    /\ nodes = <<>>
    /\ body = (ModuleNode :> <<>>)
    /\ decorator_list = <<>>
    /\ conf_beartype \in Confs
    /\ scope_name_beartype = <<module_name_beartype>>
    /\ scope_stack_beartype = <<>>
    /\ frames = <<>>
    /\ node_sibling = <<>>
    /\ enters = 0
    /\ exits = 0
    /\ visited = <<>>
    /\ returned = <<>>
    /\ raised_at = <<>>
    /\ first_run = <<>>
    /\ pc = "idle"
    /\ other = <<>>

\* get_func_code_or_none() up to its first call: the lambda branch calls
\* get_func_file_code_lines_or_none(), any other callable goes to the last
\* statement, the call of get_func_code_lines_or_none().
get_func_code_or_none ==
    /\ lpc = "call"
    /\ called = "get_func_code_or_none"
    /\ lpc' = IF is_func_lambda(func) THEN "file" ELSE "lines"
    /\ UNCHANGED <<func, called, lambda_file_code, parsed, ast_tree,
                   lambdas_code, warnings, excs, result>>
    /\ UNCHANGED <<tvars, other>>

\* get_func_file_code_lines_or_none(), called by the caller of the getters
\* or from the lambda branch of get_func_code_or_none(), which goes on with
\* the value returned if it is true and to its last statement if not.
get_func_file_code_lines_or_none ==
    /\ \/ lpc = "call" /\ called = "get_func_file_code_lines_or_none"
       \/ lpc = "file"
    /\ \E found \in FindsourceOutcomes :
          LET value == IF is_func_file(func) /\ ~found.raises
                       THEN FileCode(found.size)
                       ELSE None
              next == IF lpc = "call" THEN "returned"
                      ELSE IF IsTruthy(value) THEN "codeobj"
                      ELSE "lines"
          IN  /\ ~is_func_file(func) => found = [raises |-> FALSE, size |-> 0]
              /\ IF found.raises
                 THEN Raise("findsource", next)
                 ELSE /\ lpc' = next
                      /\ UNCHANGED <<warnings, excs>>
              /\ IF lpc = "call"
                 THEN /\ result' = IF found.raises /\ ~IsInTry("findsource")
                                   THEN result ELSE <<value>>
                      /\ UNCHANGED lambda_file_code
                 ELSE /\ lambda_file_code' = <<value>>
                      /\ UNCHANGED result
    /\ UNCHANGED <<func, called, parsed, ast_tree, lambdas_code>>
    /\ UNCHANGED <<tvars, other>>

\* The lambda branch of get_func_code_or_none() once lambda_file_code is
\* true: the code object, the test of the size of the file, ast_parse(), the
\* visit of the tree by the unparser, and the choice among the lambdas found.
parse_lambda ==
    /\ lpc = "codeobj"
    /\ \/ /\ Raise("get_func_codeobj", "lines")
          /\ UNCHANGED <<parsed, ast_tree, lambdas_code, result>>
       \/ /\ IsFileTooLarge(lambda_file_code[1].size)
          /\ warnings' = Append(warnings, "exceeds")
          /\ lpc' = "lines"
          /\ UNCHANGED <<parsed, ast_tree, lambdas_code, excs, result>>
       \/ /\ ~IsFileTooLarge(lambda_file_code[1].size)
          /\ parsed' = TRUE
          /\ \/ /\ Raise("ast_parse", "lines")
                /\ UNCHANGED <<ast_tree, lambdas_code, result>>
             \/ /\ Raise("visit", "lines")
                /\ UNCHANGED <<ast_tree, lambdas_code, result>>
             \/ /\ Raise("ast_unparse", "lines")
                /\ UNCHANGED <<ast_tree, lambdas_code, result>>
             \/ \E n \in 0..MaxAstNodes :
                \E parents \in PreorderParents(n) :
                \E kinds \in [1..n -> AstNodes] :
                   LET tree == AstTree(kinds, parents)
                       codes == VisitTree(tree, func.co_firstlineno)
                   IN  /\ ast_tree' = tree
                       /\ lambdas_code' = codes
                       /\ excs' = excs
                       /\ IF codes # <<>>
                          THEN /\ warnings' =
                                    IF Len(codes) >= 2
                                    THEN Append(warnings, "ambiguous")
                                    ELSE warnings
                               /\ result' =
                                    <<LambdaCode(SelectedLambda(codes))>>
                               /\ lpc' = "returned"
                          ELSE /\ warnings' = Append(warnings, "not found")
                               /\ result' = result
                               /\ lpc' = "lines"
    /\ UNCHANGED <<func, called, lambda_file_code>>
    /\ UNCHANGED <<tvars, other>>

\* get_func_code_lines_or_none(), called by the caller of the getters or as
\* the last statement of get_func_code_or_none(). inspect.getsource() calls
\* inspect.findsource() itself and so raises where that call has raised.
get_func_code_lines_or_none ==
    /\ \/ lpc = "call" /\ called = "get_func_code_lines_or_none"
       \/ lpc = "lines"
    /\ IF is_func_file(func)
       THEN \/ /\ \A i \in 1..Len(excs) : excs[i] # "findsource"
               /\ result' = <<FuncLines>>
               /\ lpc' = "returned"
               /\ UNCHANGED <<warnings, excs>>
            \/ /\ Raise("getsource", "returned")
               /\ result' = IF IsInTry("getsource") THEN <<None>> ELSE result
       ELSE /\ result' = <<None>>
            /\ lpc' = "returned"
            /\ UNCHANGED <<warnings, excs>>
    /\ UNCHANGED <<func, called, lambda_file_code, parsed, ast_tree,
                   lambdas_code>>
    /\ UNCHANGED <<tvars, other>>

NextLocator ==
    \/ get_func_code_or_none
    \/ get_func_file_code_lines_or_none
    \/ parse_lambda
    \/ get_func_code_lines_or_none

\* One call of one getter.
SpecLocator == InitLocator /\ [][NextLocator]_vars

-----------------------------------------------------------------------------
(* Vocabulary of the properties, read off the tree and not off the         *)
(* transformer's own state.                                                *)

IsImportNode(n) == nodes[n].module = "beartype.claw._ast._clawaststar"

\* The nodes of the tree as it was handed to the transformer.
OriginalNodes == { n \in DOMAIN nodes : ~IsImportNode(n) }

IsClass(n) == nodes[n].kind = "ClassDef"
IsFunction(n) == nodes[n].kind = "FunctionDef"
IsTyped(n) == nodes[n].returns \/ nodes[n].args
IsDecorated(n) == decorator_list[n] # <<>>

IsFutureImport(n) ==
    nodes[n].kind = "ImportFrom" /\ nodes[n].module = "__future__"

\* An expression statement of a string constant.
IsStringStatement(n) ==
    nodes[n].kind = "Expr" /\ nodes[n].value = "ConstantStr"

\* The top-level statements of the module as handed to the transformer.
OriginalBody ==
    SelectSeq(body[ModuleNode], LAMBDA n : ~IsImportNode(n))

\* The module docstring: a string statement that is the first statement.
HasDocstring(stmts) == stmts # <<>> /\ IsStringStatement(stmts[1])

\* The positions (from 1) of the inserted import nodes among the top-level
\* statements.
ImportPositions ==
    { i \in 1..Len(body[ModuleNode]) : IsImportNode(body[ModuleNode][i]) }

\* The 0-based index of the inserted import node; -1 if there is none.
ImportIndex ==
    IF ImportPositions = {} THEN -1
    ELSE (CHOOSE i \in ImportPositions : TRUE) - 1

\* The language's ordering rules: a future import is preceded by future
\* imports and the docstring only.
RespectsOrdering(stmts) ==
    \A i \in 1..Len(stmts) :
        IsFutureImport(stmts[i]) =>
            \A j \in 1..(i - 1) :
                IsFutureImport(stmts[j]) \/ (j = 1 /\ HasDocstring(stmts))

RECURSIVE EnclosingScope(_)
\* The nearest enclosing class or callable of node n (0: none, the module).
EnclosingScope(n) ==
    LET p == nodes[n].parent
    IN  IF p = ModuleNode THEN ModuleNode
        ELSE IF nodes[p].kind \in {"ClassDef", "FunctionDef"} THEN p
        ELSE EnclosingScope(p)

\* A callable whose nearest enclosing scope is a class.
IsDirectMethod(n) ==
    /\ IsFunction(n)
    /\ EnclosingScope(n) # ModuleNode
    /\ IsClass(EnclosingScope(n))

RECURSIVE EnclosingKinds(_)
\* The types of the classes and callables that enclose the children of node
\* n (n included), outermost first.
EnclosingKinds(n) ==
    IF n = ModuleNode THEN <<>>
    ELSE IF nodes[n].kind \in {"ClassDef", "FunctionDef"}
         THEN Append(EnclosingKinds(nodes[n].parent), nodes[n].kind)
         ELSE EnclosingKinds(nodes[n].parent)

RECURSIVE Depth(_)
Depth(n) == IF n = ModuleNode THEN 0 ELSE 1 + Depth(nodes[n].parent)

RECURSIVE InAlternation(_)
\* Node n ends a chain class > method > class > method ... that starts with
\* a class at module level, each a direct child of the one before.
InAlternation(n) ==
    LET p == nodes[n].parent
    IN  IF p = ModuleNode THEN IsClass(n)
        ELSE /\ \/ IsFunction(n) /\ IsClass(p)
                \/ IsClass(n) /\ IsFunction(p)
             /\ InAlternation(p)

-----------------------------------------------------------------------------
(* Properties.                                                             *)

\* C1: after a full run no callable whose nearest enclosing class or
\* callable is a class (a direct method) has a decoration of its own, typed
\* or not.
C1_MethodsNotDecorated ==
    pc = "done" =>
        \A n \in OriginalNodes : IsDirectMethod(n) => ~IsDecorated(n)

\* A finished run over a tree with a typed direct method, left undecorated,
\* and a typed function that was decorated.
C1_Witness ==
    /\ pc = "done"
    /\ \E n \in OriginalNodes :
          IsDirectMethod(n) /\ IsTyped(n) /\ ~IsDecorated(n)
    /\ \E n \in OriginalNodes :
          IsFunction(n) /\ ~IsDirectMethod(n) /\ IsDecorated(n)

\* C2: after a full run every class carries exactly one decoration, whatever
\* its members and wherever it is nested.
C2_ClassDecoratedOnce ==
    pc = "done" =>
        \A n \in OriginalNodes : IsClass(n) => Len(decorator_list[n]) = 1

\* A finished run over a tree with a class nested directly in a class, both
\* decorated once, none with a typed member.
C2_Witness ==
    /\ pc = "done"
    /\ \E n \in OriginalNodes :
          /\ IsClass(n)
          /\ nodes[n].parent # ModuleNode
          /\ IsClass(nodes[n].parent)
          /\ Len(decorator_list[n]) = 1
          /\ Len(decorator_list[nodes[n].parent]) = 1
    /\ \A n \in OriginalNodes : ~IsTyped(n)

\* C3: after a full run a callable that is not a direct method is decorated
\* if and only if it has a return annotation or an annotated parameter.
C3_FunctionDecoratedIffTyped ==
    pc = "done" =>
        \A n \in OriginalNodes :
            IsFunction(n) /\ ~IsDirectMethod(n) =>
                (IsDecorated(n) <=> (nodes[n].returns \/ nodes[n].args))

\* A finished run over a tree with an undecorated function without
\* annotations, and a decorated function nested in a callable that has a
\* return annotation only.
C3_Witness ==
    /\ pc = "done"
    /\ \E n \in OriginalNodes :
          /\ IsFunction(n) /\ ~IsDirectMethod(n)
          /\ ~nodes[n].returns /\ ~nodes[n].args /\ ~IsDecorated(n)
    /\ \E n \in OriginalNodes :
          /\ IsFunction(n) /\ ~IsDirectMethod(n)
          /\ nodes[n].returns /\ ~nodes[n].args /\ IsDecorated(n)

\* C4: after a full run over class A > method f > class B > method g (or a
\* deeper such alternation) every class of the chain is decorated and no
\* method of it is.
C4_AlternationDecorated ==
    pc = "done" =>
        \A n \in OriginalNodes :
            InAlternation(n) =>
                IF IsClass(n) THEN IsDecorated(n) ELSE ~IsDecorated(n)

\* A finished run over A > f > B > g with f and g typed.
C4_Witness ==
    /\ pc = "done"
    /\ \E g \in OriginalNodes :
          /\ InAlternation(g) /\ Depth(g) = 4
          /\ IsFunction(g) /\ IsTyped(g) /\ ~IsDecorated(g)
          /\ IsDecorated(nodes[g].parent)
          /\ IsTyped(nodes[nodes[g].parent].parent)
          /\ ~IsDecorated(nodes[nodes[g].parent].parent)

\* C5: the scope stack is empty before the traversal starts and after it
\* completes, and a completed traversal has popped as often as it pushed.
C5_PushesEqualPops ==
    /\ pc = "start" => scope_stack_beartype = <<>> /\ enters = 0 /\ exits = 0
    /\ pc = "done" => scope_stack_beartype = <<>> /\ enters = exits

\* A finished run that pushed at least three scopes.
C5_Witness ==
    /\ pc = "done"
    /\ enters >= 3
    /\ exits = enters

\* C6: while the children of a node are visited the scope stack holds the
\* types of the classes and callables enclosing them, outermost first; its
\* depth is their nesting depth and it is empty at module level.
C6_StackIsEnclosingScopes ==
    pc = "walk" =>
        /\ scope_stack_beartype = EnclosingKinds(Top.node)
        /\ Top.node = ModuleNode => scope_stack_beartype = <<>>

\* The children of an "if" block in a callable in a class being visited.
C6_Witness ==
    /\ pc = "walk"
    /\ Kind(Top.node) = "If"
    /\ scope_stack_beartype = <<"ClassDef", "FunctionDef">>

\* C7: for a module of a docstring, then k future imports, then at least
\* one other statement, the import is inserted at index 1 + k; without a
\* docstring, at index k.
C7_ImportIndexAfterFutures ==
    pc # "start" =>
        LET stmts == OriginalBody
        IN  \A k \in 0..Len(stmts) :
              /\ ( /\ Len(stmts) > k + 1
                   /\ HasDocstring(stmts)
                   /\ \A i \in 2..(k + 1) : IsFutureImport(stmts[i])
                   /\ ~IsFutureImport(stmts[k + 2]) )
                 => ImportIndex = 1 + k
              /\ ( /\ Len(stmts) > k
                   /\ ~HasDocstring(stmts)
                   /\ \A i \in 1..k : IsFutureImport(stmts[i])
                   /\ ~IsFutureImport(stmts[k + 1]) )
                 => ImportIndex = k

\* C8: after the run the module holds no import node if and only if its
\* statement list is empty or only a docstring and/or future imports (and
\* is then unchanged); every other module holds exactly one.
C8_NoImportIffTrivial ==
    pc # "start" =>
        LET stmts == OriginalBody
            trivial == \A i \in 1..Len(stmts) :
                          \/ i = 1 /\ HasDocstring(stmts)
                          \/ IsFutureImport(stmts[i])
        IN  /\ ImportPositions = {} <=> trivial
            /\ ImportPositions = {} => body[ModuleNode] = stmts
            /\ ~trivial => Cardinality(ImportPositions) = 1

\* C9: in a module that respects the ordering rules the inserted import
\* stands after the docstring and after every future import.
C9_ImportAfterDocstringAndFutures ==
    pc # "start" /\ RespectsOrdering(OriginalBody) =>
        \A i \in ImportPositions :
            \A j \in 1..Len(body[ModuleNode]) :
                LET n == body[ModuleNode][j]
                IN  \/ IsFutureImport(n)
                    \/ HasDocstring(OriginalBody) /\ n = OriginalBody[1]
                    => j < i

\* The import inserted into a module of a docstring, a future import and
\* another statement.
C9_Witness ==
    /\ pc # "start"
    /\ RespectsOrdering(OriginalBody)
    /\ HasDocstring(OriginalBody)
    /\ \E j \in 1..Len(OriginalBody) : IsFutureImport(OriginalBody[j])
    /\ ImportPositions # {}

\* C10: no node is decorated twice in one run.
C10_DecoratedAtMostOnce ==
    \A n \in DOMAIN decorator_list : Len(decorator_list[n]) <= 1

\* A finished run that decorated a class, a function in that class's method
\* and a function at module level, each once.
C10_Witness ==
    /\ pc = "done"
    /\ \E c, f \in OriginalNodes :
          /\ IsClass(c) /\ Len(decorator_list[c]) = 1
          /\ IsFunction(f) /\ Len(decorator_list[f]) = 1
          /\ nodes[f].parent # ModuleNode
          /\ IsDirectMethod(nodes[f].parent)

-----------------------------------------------------------------------------
(* Vocabulary of the properties of a whole run and of a second run.        *)

\* The children of node m in the tree as handed to the transformer.
OriginalChildren(m) ==
    SelectSeq(Children(nodes, m), LAMBDA n : ~IsImportNode(n))

\* A statement the scan of visit_Module() passes over: an expression
\* statement of a constant, or a future import.
IsConstantStatement(n) ==
    nodes[n].kind = "Expr" /\ nodes[n].value \in {"ConstantStr", "ConstantNum"}

\* A module without a statement that stops the scan.
OnlyPassedOver(stmts) ==
    \A i \in 1..Len(stmts) :
        IsConstantStatement(stmts[i]) \/ IsFutureImport(stmts[i])

\* A class, or a typed callable that is not a direct method.
IsDecoratable(n) ==
    \/ IsClass(n)
    \/ IsFunction(n) /\ ~IsDirectMethod(n) /\ IsTyped(n)

SecondRunDone == first_run # <<>> /\ pc = "done"

\* C11: a second run over the transformed tree leaves it as the first run
\* left it: no second import, no further decoration.
C11_Idempotent ==
    SecondRunDone =>
        /\ \A m \in DOMAIN first_run[1].body :
              body[m] = first_run[1].body[m]
        /\ decorator_list = first_run[1].decorator_list

\* C11, as the code has it: the second run inserts a second import whenever
\* the first inserted one, directly before it, and decorates a second time
\* every class and every typed callable that is not a direct method; all
\* else is as the first run left it.
C11_SecondRunAddsAgain ==
    SecondRunDone =>
        /\ Cardinality(ImportPositions) =
              IF OnlyPassedOver(OriginalBody) THEN 0 ELSE 2
        /\ LET first == first_run[1].body[ModuleNode]
               second == body[ModuleNode]
           IN  IF OnlyPassedOver(OriginalBody)
               THEN second = first
               ELSE \E i \in 1..Len(first) :
                       /\ IsImportNode(first[i])
                       /\ second = InsertAt(first, i - 1, Len(nodes))
                       /\ IsImportNode(Len(nodes))
        /\ \A n \in OriginalNodes :
              /\ Len(decorator_list[n]) = IF IsDecoratable(n) THEN 2 ELSE 0
              /\ Len(first_run[1].decorator_list[n]) =
                    IF IsDecoratable(n) THEN 1 ELSE 0
              /\ body[n] = first_run[1].body[n]

\* A finished second run that put a second import into the module and a
\* second decoration on a class.
C11_Witness ==
    /\ SecondRunDone
    /\ Cardinality(ImportPositions) = 2
    /\ \E n \in OriginalNodes : IsClass(n) /\ Len(decorator_list[n]) = 2

C13_OneConf ==
    /\ [](\A n \in DOMAIN decorator_list :
            \A i \in 1..Len(decorator_list[n]) :
                decorator_list[n][i] = conf_beartype)
    /\ [][conf_beartype' = conf_beartype]_vars

\* A finished run of a transformer constructed with the second
\* configuration, which decorated a class and a function with it.
C13_Witness ==
    /\ pc = "done"
    /\ conf_beartype = "conf_other"
    /\ \E c, f \in OriginalNodes :
          /\ IsClass(c) /\ decorator_list[c] = <<"conf_other">>
          /\ IsFunction(f) /\ decorator_list[f] = <<"conf_other">>

\* The lambda nodes of the tree that start on the line of the callable and
\* that the visit meets: no lambda above them starts on a later line.
RECURSIVE IsMet(_, _, _)
IsMet(tree, n, lineno) ==
    LET parent == tree[n].parent
    IN  \/ parent = 0
        \/ /\ tree[parent].kind = "Lambda" => tree[parent].lineno <= lineno
           /\ IsMet(tree, parent, lineno)

LambdasOnLine ==
    { n \in DOMAIN ast_tree :
        /\ ast_tree[n].kind = "Lambda"
        /\ ast_tree[n].lineno = func.co_firstlineno
        /\ IsMet(ast_tree, n, func.co_firstlineno) }

\* The first of them in pre-order, which is the order of the node ids.
FirstLambdaOnLine ==
    CHOOSE n \in LambdasOnLine : \A m \in LambdasOnLine : n <= m

\* get_func_code_or_none() has returned for a lambda of which the file was
\* read, parsed and visited without an exception.
LambdaFileVisited ==
    /\ lpc = "returned"
    /\ called = "get_func_code_or_none"
    /\ is_func_lambda(func)
    /\ parsed
    /\ excs = <<>>

\* C14: for a lambda on a line with two or more lambdas,
\* get_func_code_or_none() returns the unparsed source of the first of them
\* in pre-order and issues one warning, of the ambiguity; with exactly one
\* lambda on the line it returns that one's and issues no warning.
C14_FirstLambdaOfLine ==
    LambdaFileVisited /\ LambdasOnLine # {} =>
        /\ result = <<LambdaCode(ast_unparse(ast_tree[FirstLambdaOnLine]))>>
        /\ warnings = IF Cardinality(LambdasOnLine) >= 2
                      THEN <<"ambiguous">>
                      ELSE <<>>

\* Two lambdas of different text on the line of the callable, the second
\* nested in the first: the text of the first returned, with one warning.
C14_Witness ==
    /\ LambdaFileVisited
    /\ Cardinality(LambdasOnLine) = 2
    /\ \E n, m \in LambdasOnLine :
          /\ ast_tree[m].parent = n
          /\ ast_unparse(ast_tree[n]) # ast_unparse(ast_tree[m])
          /\ result = <<LambdaCode(ast_unparse(ast_tree[n]))>>
    /\ warnings = <<"ambiguous">>

\* C15: when reading, parsing or unparsing the file of a lambda raises,
\* get_func_code_or_none() issues a warning and returns None.
C15_NoneOnFailure ==
    /\ lpc = "returned"
    /\ called = "get_func_code_or_none"
    /\ is_func_lambda(func)
    /\ excs # <<>>
    => /\ warnings # <<>>
       /\ result = <<None>>

\* C16: no exception leaves a getter. Every exception raised by the lookup of
\* the source, by the parser, by the visit or by the unparser has been
\* answered by one warning, also when the call made after a first failure
\* fails too, and the getter returns a value.
C16_NoExceptionEscapes ==
    /\ lpc # "escaped"
    /\ Len(SelectSeq(warnings, LAMBDA w : w = "not parsable")) = Len(excs)
    /\ lpc = "returned" => result # <<>>

\* get_func_code_or_none() has returned None with two warnings: the unparser
\* raised, and then getsource() raised in get_func_code_lines_or_none().
C16_Witness ==
    /\ lpc = "returned"
    /\ called = "get_func_code_or_none"
    /\ excs = <<"ast_unparse", "getsource">>
    /\ warnings = <<"not parsable", "not parsable">>
    /\ result = <<None>>

\* C17: the traversal terminates. No node is visited twice and a run that is
\* not complete can take a step; a run under fairness completes; the
\* complete run has visited every node once, has an empty scope stack and
\* has returned the module node it was given.
C17_Terminates ==
    /\ [](/\ \A i, j \in 1..Len(visited) :
                i # j => visited[i] # visited[j]
          /\ pc \in {"start", "walk"} => ENABLED Next
          /\ pc = "done" =>
                /\ Len(visited) = Len(nodes) + 1
                /\ \A n \in DOMAIN nodes \union {ModuleNode} :
                      \E i \in 1..Len(visited) : visited[i] = n
                /\ scope_stack_beartype = <<>>
                /\ returned = << <<ModuleNode>> >>)
    /\ <>(pc = "done")

\* A finished run over a tree of three nested nodes and the import node.
C17_Witness ==
    /\ pc = "done"
    /\ Len(visited) = 5
    /\ \E n \in OriginalNodes : Depth(n) = 3
    /\ returned = << <<ModuleNode>> >>

\* C18: when the visit of a descendant raises while scopes are open, every
\* open scope is closed and the scope name restored before the exception
\* leaves visit(): the stack is as deep after the failed run as before it.
C18_PoppedOnException ==
    pc = "raised" =>
        /\ scope_stack_beartype = <<>>
        /\ scope_name_beartype = <<module_name_beartype>>

\* C18, as the code has it: scopes are closed on normal return only. After
\* an exception the stack still holds the scopes that enclosed the node
\* whose visit raised, the scope name still names them, and no scope was
\* closed for them.
C18_OpenScopesStayOnException ==
    pc = "raised" =>
        LET parent == nodes[raised_at[1]].parent
        IN  /\ scope_stack_beartype = EnclosingKinds(parent)
            /\ Len(scope_name_beartype) = 1 + Len(EnclosingKinds(parent))
            /\ enters - exits = Len(EnclosingKinds(parent))

\* The visit of a node in a callable in a class raised: both scopes are
\* still on the stack.
C18_Witness ==
    /\ pc = "raised"
    /\ scope_stack_beartype = <<"ClassDef", "FunctionDef">>
    /\ Len(scope_name_beartype) = 3
    /\ frames = <<>>

\* The index at which the scan stops when it passes over one docstring, if
\* it is the first statement, and the future imports that follow.
RECURSIVE FuturesFrom(_, _)
FuturesFrom(stmts, i) ==
    IF i <= Len(stmts) /\ IsFutureImport(stmts[i])
    THEN FuturesFrom(stmts, i + 1)
    ELSE i - 1

DocstringThenFutures(stmts) ==
    FuturesFrom(stmts, IF HasDocstring(stmts) THEN 2 ELSE 1)

\* C19: the scan passes over at most one docstring, only as the first
\* statement, and over the future imports that follow it; a constant
\* statement anywhere else stops it and the import is inserted before it.
C19_ScanStopsAtLaterConstant ==
    pc # "start" =>
        LET stmts == OriginalBody
            cursor == DocstringThenFutures(stmts)
        IN  IF cursor < Len(stmts)
            THEN ImportIndex = cursor
            ELSE ImportPositions = {}

C21_MetadataFromModule ==
    pc # "start" /\ ImportIndex = 0 => node_sibling = <<ModuleNode>>

\* The names of the scopes that enclose node n, n included, outermost first.
RECURSIVE EnclosingNames(_)
EnclosingNames(n) ==
    IF n = ModuleNode THEN <<>>
    ELSE IF nodes[n].kind \in {"ClassDef", "FunctionDef"}
         THEN Append(EnclosingNames(nodes[n].parent), n)
         ELSE EnclosingNames(nodes[n].parent)

\* C22: at every point of the run the scope name is the module name followed
\* by the name of each open scope, outermost first; it is the module name
\* before the run and after it.
C22_ScopeNameIsPath ==
    /\ scope_name_beartype[1] = module_name_beartype
    /\ pc = "walk" =>
          scope_name_beartype =
             <<module_name_beartype>> \o EnclosingNames(Top.node)
    /\ pc \in {"start", "done"} =>
          scope_name_beartype = <<module_name_beartype>>
    /\ \A i \in 1..Len(frames) :
          frames[i].scope_name_old =
             <<module_name_beartype>>
                \o EnclosingNames(IF frames[i].node = ModuleNode
                                  THEN ModuleNode
                                  ELSE nodes[frames[i].node].parent)

\* The children of a callable in a class being visited: the name holds the
\* module, the class and the callable.
C22_Witness ==
    /\ pc = "walk"
    /\ Top.node # ModuleNode
    /\ IsFunction(Top.node)
    /\ nodes[Top.node].parent # ModuleNode
    /\ IsClass(nodes[Top.node].parent)
    /\ scope_name_beartype =
          <<module_name_beartype, nodes[Top.node].parent, Top.node>>

\* The nodes visited so far.
Visited == { visited[i] : i \in 1..Len(visited) }

\* C23: a class or callable is decorated in the step that starts its visit,
\* on the scope stack as it is before the node's own frame is pushed (the
\* scopes that enclose its parent), and a callable only when the top of that
\* stack is no class; every node visited below a class finds the class
\* decorated and its frame on the stack.
C23_DecoratedBeforePush ==
    /\ [][\A n \in DOMAIN decorator_list :
            decorator_list'[n] # decorator_list[n] =>
               /\ n \notin Visited
               /\ visited' = Append(visited, n)
               /\ scope_stack_beartype = EnclosingKinds(nodes[n].parent)
               /\ scope_stack_beartype' =
                     Append(scope_stack_beartype, nodes[n].kind)
               /\ IsFunction(n) => ~is_scope_class_beartype(scope_stack_beartype)
               /\ \A m \in DOMAIN nodes : nodes[m].parent = n => m \notin Visited
         ]_vars
    /\ [](\A m \in Visited \ {ModuleNode} :
            LET p == nodes[m].parent
            IN  p # ModuleNode /\ IsClass(p) =>
                   /\ IsDecorated(p)
                   /\ p \in Visited
                   /\ pc = "walk" /\ Top.node = p =>
                         is_scope_class_beartype(scope_stack_beartype))

\* A typed callable at module level has been decorated and its frame pushed,
\* and a typed method of a decorated class was visited and not decorated.
C23_Witness ==
    /\ \E c, f \in Visited \ {ModuleNode} :
          /\ IsClass(c) /\ IsDecorated(c)
          /\ IsFunction(f) /\ IsTyped(f) /\ nodes[f].parent = c
          /\ ~IsDecorated(f)
    /\ \E g \in Visited \ {ModuleNode} :
          /\ IsFunction(g) /\ nodes[g].parent = ModuleNode /\ IsDecorated(g)

\* C24: the visit of a node that declares no scope changes neither the scope
\* stack nor the scope name, so a callable in such a node keeps the scope
\* that encloses the node: in a class it is a method and is not decorated,
\* elsewhere it is decorated iff typed.
C24_BlocksKeepScope ==
    /\ [][\A n \in DOMAIN nodes :
            /\ n \notin Visited
            /\ visited' = Append(visited, n)
            /\ nodes[n].kind \notin {"ClassDef", "FunctionDef"}
            => /\ scope_stack_beartype' = scope_stack_beartype
               /\ scope_name_beartype' = scope_name_beartype
         ]_vars
    /\ [](pc = "done" =>
            \A f \in OriginalNodes :
               IsFunction(f) /\ nodes[f].parent # ModuleNode
                  /\ nodes[nodes[f].parent].kind = "If" =>
                     (IsDecorated(f) <=> IsTyped(f) /\ ~IsDirectMethod(f)))

\* A finished run over a class with an "if" block that holds a typed
\* callable, which is not decorated.
C24_Witness ==
    /\ pc = "done"
    /\ \E f \in OriginalNodes :
          /\ IsFunction(f) /\ IsTyped(f) /\ ~IsDecorated(f)
          /\ nodes[f].parent # ModuleNode
          /\ nodes[nodes[f].parent].kind = "If"
          /\ nodes[nodes[f].parent].parent # ModuleNode
          /\ IsClass(nodes[nodes[f].parent].parent)

\* C25: a typed callable declared directly in a callable is decorated,
\* whether the callable around it was decorated, was left alone as untyped
\* or was left alone as a method; a class further out does not matter.
C25_NestedDecidedAlone ==
    pc = "done" =>
        \A f \in OriginalNodes :
           IsFunction(f) /\ nodes[f].parent # ModuleNode
              /\ IsFunction(nodes[f].parent) =>
                 (IsDecorated(f) <=> IsTyped(f))

\* A finished run over a class with a typed method, not decorated, that
\* holds a typed callable, decorated.
C25_Witness ==
    /\ pc = "done"
    /\ \E f \in OriginalNodes :
          /\ IsFunction(f) /\ IsTyped(f) /\ IsDecorated(f)
          /\ nodes[f].parent # ModuleNode
          /\ IsDirectMethod(nodes[f].parent)
          /\ IsTyped(nodes[f].parent)
          /\ ~IsDecorated(nodes[f].parent)

\* get_func_code_or_none() has read the non-empty text of the file of a
\* lambda, has got the code object, and is past the test of the size.
LambdaFileRead ==
    /\ called = "get_func_code_or_none"
    /\ lpc \in {"lines", "returned"}
    /\ lambda_file_code # <<>>
    /\ IsTruthy(lambda_file_code[1])
    /\ \A i \in 1..Len(excs) : excs[i] # "get_func_codeobj"

\* C26: the file of a lambda is passed to the parser iff its text is not
\* longer than the maximum; for a longer file one warning of the size is
\* issued and the parser is not called; a file of exactly the maximum size
\* is parsed.
C26_ParsedUpToMaximum ==
    LambdaFileRead =>
        LET size == lambda_file_code[1].size
        IN  /\ parsed <=> size <= _LAMBDA_CODE_FILESIZE_MAX
            /\ size > _LAMBDA_CODE_FILESIZE_MAX =>
                  warnings[1] = "exceeds"

\* A call that ends as a call of get_func_code_lines_or_none() alone does.
IsLinesCall ==
    \/ called = "get_func_code_lines_or_none"
    \/ called = "get_func_code_or_none" /\ ~is_func_lambda(func)

\* C27: get_func_code_lines_or_none() returns None without a warning for a
\* callable not declared in a file, None after exactly one warning when the
\* retrieval of the source raises, and the text retrieved without a warning
\* otherwise; get_func_code_or_none() does the same for every callable that
\* is no lambda.
C27_LinesGetter ==
    IsLinesCall =>
        /\ lpc # "escaped"
        /\ lpc = "returned" =>
              IF ~is_func_file(func)
              THEN result = <<None>> /\ warnings = <<>> /\ excs = <<>>
              ELSE IF excs # <<>>
              THEN result = <<None>> /\ Len(warnings) = 1 /\ Len(excs) = 1
              ELSE result = <<FuncLines>> /\ warnings = <<>>

\* get_func_code_or_none() has returned None with one warning for a callable
\* that is no lambda and of which the source could not be retrieved.
C27_Witness ==
    /\ called = "get_func_code_or_none"
    /\ ~is_func_lambda(func)
    /\ is_func_file(func)
    /\ lpc = "returned"
    /\ excs = <<"getsource">>
    /\ result = <<None>>
    /\ warnings = <<"not parsable">>

\* No node of the tree starts on an earlier line than the node above it
\* (and so than any node above it).
NoEarlierThanAncestor(tree) ==
    \A n \in DOMAIN tree :
        tree[n].parent # 0 => tree[tree[n].parent].lineno <= tree[n].lineno

\* The lambda nodes of the tree that start on the line, in pre-order, which
\* is the order of the node ids.
AllLambdasOnLine(tree, lineno) ==
    SelectSeq([i \in 1..Len(tree) |-> i],
              LAMBDA n : tree[n].kind = "Lambda" /\ tree[n].lineno = lineno)

\* C28: after the visit of a tree in which no node starts on an earlier line
\* than its ancestor, lambdas_code holds the unparsed source of every lambda
\* node that starts on the requested line, in pre-order, and nothing else.
C28_EveryLambdaOfLine ==
    NoEarlierThanAncestor(ast_tree) =>
        LET on_line == AllLambdasOnLine(ast_tree, func.co_firstlineno)
        IN  lambdas_code =
               [i \in 1..Len(on_line) |-> ast_unparse(ast_tree[on_line[i]])]

\* A lambda on the requested line with a lambda of another text in it on the
\* same line, and a lambda on a later line, which is left out.
C28_Witness ==
    /\ Len(ast_tree) = 3
    /\ NoEarlierThanAncestor(ast_tree)
    /\ AllLambdasOnLine(ast_tree, func.co_firstlineno) = <<1, 2>>
    /\ ast_tree[2].parent = 1
    /\ ast_tree[3].kind = "Lambda"
    /\ ast_tree[3].lineno > func.co_firstlineno
    /\ lambdas_code = <<"lambda: 0", "lambda: 1">>

\* The number of statements at the head of the list that are expression
\* statements of a constant or future imports.
RECURSIVE PassedOverFrom(_, _)
PassedOverFrom(stmts, i) ==
    IF i <= Len(stmts)
       /\ (IsConstantStatement(stmts[i]) \/ IsFutureImport(stmts[i]))
    THEN PassedOverFrom(stmts, i + 1)
    ELSE i - 1

RunsAsAlone ==
    /\ pc = "start" =>
          /\ scope_stack_beartype = <<>>
          /\ scope_name_beartype = <<module_name_beartype>>
    /\ pc = "walk" =>
          /\ scope_stack_beartype = EnclosingKinds(Top.node)
          /\ scope_name_beartype =
                <<module_name_beartype>> \o EnclosingNames(Top.node)

\* Its tree, once its visit is complete, is the tree of a run alone: the
\* statements in their places, the import after the statements the scan
\* passes over, one decoration with the configuration of this transformer
\* on every class and every typed callable that is no method.
TreeAsAlone ==
    pc = "done" =>
        /\ scope_stack_beartype = <<>>
        /\ scope_name_beartype = <<module_name_beartype>>
        /\ returned = << <<ModuleNode>> >>
        /\ \A m \in OriginalNodes \union {ModuleNode} :
              SelectSeq(body[m], LAMBDA n : ~IsImportNode(n))
                 = OriginalChildren(m)
        /\ IF PassedOverFrom(OriginalBody, 1) < Len(OriginalBody)
           THEN ImportIndex = PassedOverFrom(OriginalBody, 1)
           ELSE ImportPositions = {}
        /\ \A n \in OriginalNodes :
              decorator_list[n] =
                 IF IsDecoratable(n) THEN <<conf_beartype>> ELSE <<>>

\* C30: the state of a traversal belongs to the transformer instance. When
\* the visit steps of two transformers on two trees are interleaved in any
\* order, each has the scope stack and the scope name of a run alone at
\* every step, keeps its configuration, and ends with the tree of a run
\* alone.
C30_InstancesIndependent ==
    /\ RunsAsAlone
    /\ TreeAsAlone
    /\ other # <<>> =>
          /\ conf_beartype # other[1].conf_beartype
          /\ other[1].pc = "start" =>
                /\ other[1].scope_stack_beartype = <<>>
                /\ other[1].decorator_list
                      = [m \in DOMAIN other[1].decorator_list |-> <<>>]

\* The visit of the one transformer is suspended in a callable in a class
\* and the visit of the other, which was suspended before, is complete: its
\* class is decorated with its configuration.
C30_Witness ==
    /\ other # <<>>
    /\ other[1].pc = "walk"
    /\ other[1].scope_stack_beartype = <<"ClassDef", "FunctionDef">>
    /\ other[1].conf_beartype = "conf"
    /\ pc = "done"
    /\ conf_beartype = "conf_other"
    /\ \E c \in OriginalNodes :
          IsClass(c) /\ decorator_list[c] = <<"conf_other">>

====
